---------------------------- MODULE Spec2Model ----------------------------
(***************************************************************************)
(* Model of the singly linked list of src/src/lib.rs.                      *)
(*                                                                         *)
(* A chain of Option<Box<Node<T>>> links is a sequence of the nodes' data: *)
(* node j (1-based) is chain[j], and the empty sequence is None.  A        *)
(* pointer `ptr` to a link is a slot number k in 0..Len(chain): slot 0 is  *)
(* self.head, slot k is the `next` field of node k.  Slot k holds Some     *)
(* exactly when k < Len(chain).                                            *)
(***************************************************************************)
EXTENDS Integers, Sequences, FiniteSets, TLC

\* ------------------------------------------------------------------ bounds
NumData == 2        \* the values stored are 1..NumData
MaxCount == 4       \* growth is allowed only while the stored len is below it
MaxIndex == 5       \* index arguments are 0..MaxIndex
UsizeBits == 16     \* width of usize in the model (64 in the code)

Data == 1..NumData
Indices == 0..MaxIndex
UsizeModulus == 2^UsizeBits

RECURSIVE SeqsUpTo(_)
SeqsUpTo(n) ==
    IF n = 0 THEN {<<>>}
    ELSE LET S == SeqsUpTo(n - 1)
         IN S \cup {Append(s, d) : s \in {t \in S : Len(t) = n - 1}, d \in Data}

Vecs == SeqsUpTo(MaxCount)

\* ------------------------------------------------------------------- state
VARIABLES
    list,             \* the LinkedList struct: [head |-> chain, len |-> usize]
    overflow_checks,  \* the build: TRUE panics on usize overflow, FALSE wraps
    call,             \* the last call made: [op, data, index]
    ret,              \* what that call returned
    panicked,         \* a call panicked; the thread unwinds and nothing follows
    vec,              \* reference Vec that received the same calls
    vec_ret,          \* what the reference returned for the last call
    only_appended,    \* the list was built from empty by appends alone
    depth             \* deepest nesting of node releases during the last call

vars == <<list, overflow_checks, call, ret, panicked, vec, vec_ret, only_appended,
          depth>>

\* ----------------------------------------------------------------- Option
\* a link holding no node
None == <<>>

\* values returned by calls; val is always a sequence of integers
Unit == [kind |-> "self", val |-> <<>>]
Panic == [kind |-> "panic", val |-> <<>>]
RetNone == [kind |-> "none", val |-> <<>>]
RetSome(v) == [kind |-> "some", val |-> <<v>>]
Items(s) == [kind |-> "items", val |-> s]

\* ------------------------------------------------------- chain primitives
\* the Option<Box<Node>> stored in slot k, as a chain
Rest(chain, k) == SubSeq(chain, k + 1, Len(chain))

\* *slot_k = sub : the chain with the link in slot k replaced by sub
Put(chain, k, sub) == SubSeq(chain, 1, k) \o sub

IsSome(chain, k) == k < Len(chain)

\* for _ in 0..steps { if let Some(node) = ptr { ptr = &node.next } else { break } }
RECURSIVE Walk(_, _, _)
Walk(chain, k, steps) ==
    IF steps <= 0 THEN k
    ELSE IF IsSome(chain, k) THEN Walk(chain, k + 1, steps - 1)
    ELSE k

\* while let Some(node) = ptr { ptr = &mut node.next }
RECURSIVE WalkEnd(_, _)
WalkEnd(chain, k) ==
    IF IsSome(chain, k) THEN WalkEnd(chain, k + 1) ELSE k

\* a - b on usize without overflow checks
WrappingSub(a, b) == (a - b + UsizeModulus) % UsizeModulus
WrappingAdd(a, b) == (a + b) % UsizeModulus

\* outcome of a call: the struct afterwards, the value returned, panic or not
Outcome(self, r) == [self |-> self, ret |-> r, panic |-> FALSE]
Panicked(self) == [self |-> self, ret |-> Panic, panic |-> TRUE]

\* ------------------------------------------------------------- operations
new == [head |-> None, len |-> 0]

AddLen(self, checks) ==
    IF checks /\ self.len + 1 >= UsizeModulus THEN Panicked(self)
    ELSE Outcome([self EXCEPT !.len = WrappingAdd(self.len, 1)], Unit)

\* append that stores the node in the head link without walking to the end
append_no_walk(self, data, checks) ==
    LET linked == [self EXCEPT !.head = Put(self.head, 0, <<data>>)]
    IN AddLen(linked, checks)

append(self, data, checks) ==
    LET ptr == WalkEnd(self.head, 0)
        linked == [self EXCEPT !.head = Put(self.head, ptr, <<data>>)]
    IN AddLen(linked, checks)

\* prepend that does not hand the old chain to the new node
prepend_drop_old(self, data, checks) ==
    LET linked == [self EXCEPT !.head = <<data>>]
    IN AddLen(linked, checks)

prepend(self, data, checks) ==
    LET old == self.head
        linked == [self EXCEPT !.head = <<data>> \o old]
    IN AddLen(linked, checks)

\* clear that forgets self.len = 0
clear_keep_len(self) == Outcome([self EXCEPT !.head = None], Unit)

clear(self) == Outcome([head |-> None, len |-> 0], Unit)

is_empty(self) == self.head = None

len(self) == self.len

pop_front(self, checks) ==
    IF self.head = None THEN Outcome(self, RetNone)
    ELSE LET ptr == Head(self.head)
             unlinked == [self EXCEPT !.head = Tail(self.head)]
         IN IF checks /\ self.len < 1 THEN Panicked(unlinked)
            ELSE Outcome([unlinked EXCEPT !.len = WrappingSub(self.len, 1)],
                         RetSome(ptr))

pop_last(self, checks) ==
    IF self.head = None THEN Outcome(self, RetNone)
    ELSE IF self.len = 1 THEN pop_front(self, checks)
    ELSE IF checks /\ self.len < 1 THEN Panicked(self)
    ELSE LET ptr == Walk(self.head, 0, WrappingSub(self.len, 1))
             taken == Rest(self.head, ptr)
             unlinked == [self EXCEPT !.head = Put(self.head, ptr, None)]
         IN IF taken = None THEN Panicked(unlinked)
            ELSE Outcome([unlinked EXCEPT !.len = WrappingSub(self.len, 1)],
                         RetSome(Head(taken)))

\* the loop of insert: a None link on the way makes insert return at once
RECURSIVE WalkOrReturn(_, _, _)
WalkOrReturn(chain, k, steps) ==
    IF steps <= 0 THEN k
    ELSE IF IsSome(chain, k) THEN WalkOrReturn(chain, k + 1, steps - 1)
    ELSE -1

\* insert whose clamp branch calls prepend instead of append
insert_clamp_prepend(self, data, index, checks) ==
    IF index >= self.len THEN prepend(self, data, checks)
    ELSE IF index = 0 THEN prepend(self, data, checks)
    ELSE LET ptr == WalkOrReturn(self.head, 0, index - 1)
         IN IF ptr = -1 THEN Outcome(self, Unit)
            ELSE IF ~IsSome(self.head, ptr) THEN Panicked(self)
            ELSE LET next == Rest(self.head, ptr + 1)
                     linked == [self EXCEPT
                                  !.head = Put(self.head, ptr + 1, <<data>> \o next)]
                 IN AddLen(linked, checks)

\* insert whose loop runs 0..index instead of 0..index - 1
insert_off_by_one(self, data, index, checks) ==
    IF index >= self.len THEN append(self, data, checks)
    ELSE IF index = 0 THEN prepend(self, data, checks)
    ELSE LET ptr == WalkOrReturn(self.head, 0, index)
         IN IF ptr = -1 THEN Outcome(self, Unit)
            ELSE IF ~IsSome(self.head, ptr) THEN Panicked(self)
            ELSE LET next == Rest(self.head, ptr + 1)
                     linked == [self EXCEPT
                                  !.head = Put(self.head, ptr + 1, <<data>> \o next)]
                 IN AddLen(linked, checks)

\* insert whose splice branch forgets self.len += 1
insert_no_count(self, data, index, checks) ==
    IF index >= self.len THEN append(self, data, checks)
    ELSE IF index = 0 THEN prepend(self, data, checks)
    ELSE LET ptr == WalkOrReturn(self.head, 0, index - 1)
         IN IF ptr = -1 THEN Outcome(self, Unit)
            ELSE IF ~IsSome(self.head, ptr) THEN Panicked(self)
            ELSE LET next == Rest(self.head, ptr + 1)
                 IN Outcome([self EXCEPT
                               !.head = Put(self.head, ptr + 1, <<data>> \o next)],
                            Unit)

insert(self, data, index, checks) ==
    IF index >= self.len THEN append(self, data, checks)
    ELSE IF index = 0 THEN prepend(self, data, checks)
    ELSE LET ptr == WalkOrReturn(self.head, 0, index - 1)
         IN IF ptr = -1 THEN Outcome(self, Unit)
            ELSE IF ~IsSome(self.head, ptr) THEN Panicked(self)
            ELSE LET next == Rest(self.head, ptr + 1)
                     linked == [self EXCEPT
                                  !.head = Put(self.head, ptr + 1, <<data>> \o next)]
                 IN AddLen(linked, checks)

remove(self, index0, checks) ==
    IF self.head = None THEN Outcome(self, Unit)
    ELSE IF index0 = 0
         THEN LET popped == pop_front(self, checks)
              IN IF popped.panic THEN popped ELSE Outcome(popped.self, Unit)
    ELSE IF index0 >= self.len /\ checks /\ self.len < 1 THEN Panicked(self)
    ELSE LET index == IF index0 >= self.len THEN WrappingSub(self.len, 1)
                      ELSE index0
         IN IF checks /\ index < 1 THEN Panicked(self)
            ELSE LET ptr == Walk(self.head, 0, WrappingSub(index, 1))
                 IN IF ~IsSome(self.head, ptr) THEN Panicked(self)
                    ELSE IF ~IsSome(self.head, ptr + 1) THEN Panicked(self)
                    ELSE Outcome([self EXCEPT
                                    !.head = Put(self.head, ptr + 1,
                                                 Rest(self.head, ptr + 2))],
                                 Unit)

\* while let Some(mut node) = ptr { ptr = node.next.take(); node.next = self.head.take(); self.head = Some(node) }
RECURSIVE ReverseLoop(_, _)
ReverseLoop(ptr, head) ==
    IF ptr = None THEN head
    ELSE ReverseLoop(Tail(ptr), <<Head(ptr)>> \o head)

\* reverse that starts its loop at the second node: ptr = head.take().unwrap().next
reverse_skip_head(self) ==
    IF self.len <= 1 THEN Outcome(self, Unit)
    ELSE IF self.head = None THEN Panicked(self)
    ELSE Outcome([self EXCEPT !.head = ReverseLoop(Tail(self.head), None)], Unit)

\* reverse that returns early for len <= 2
reverse_len_le_2(self) ==
    IF self.len <= 2 THEN Outcome(self, Unit)
    ELSE Outcome([self EXCEPT !.head = ReverseLoop(self.head, None)], Unit)

reverse(self) ==
    IF self.len <= 1 THEN Outcome(self, Unit)
    ELSE Outcome([self EXCEPT !.head = ReverseLoop(self.head, None)], Unit)

\* a reference to a node's data: the node it points into and the value there
Ref(chain, node) == [kind |-> "ref", val |-> <<node, chain[node]>>]
SomeRef(chain, node) == [kind |-> "some", val |-> <<node, chain[node]>>]

first(self) ==
    IF self.head = None THEN Outcome(self, RetNone)
    ELSE Outcome(self, SomeRef(self.head, 1))

\* while let Some(node) = ptr { if node.next.is_none() { break } else { ptr = &node.next } }
RECURSIVE LastWalk(_, _)
LastWalk(chain, k) ==
    IF ~IsSome(chain, k) THEN k
    ELSE IF ~IsSome(chain, k + 1) THEN k
    ELSE LastWalk(chain, k + 1)

last(self) ==
    IF self.head = None THEN Outcome(self, RetNone)
    ELSE LET ptr == LastWalk(self.head, 0)
         IN IF ~IsSome(self.head, ptr) THEN Panicked(self)
            ELSE Outcome(self, SomeRef(self.head, ptr + 1))

last_mut(self, checks) ==
    IF self.head = None THEN Outcome(self, RetNone)
    ELSE IF checks /\ self.len < 1 THEN Panicked(self)
    ELSE LET ptr == Walk(self.head, 0, WrappingSub(self.len, 1))
         IN IF ~IsSome(self.head, ptr) THEN Panicked(self)
            ELSE Outcome(self, SomeRef(self.head, ptr + 1))

index(self, i) ==
    LET ptr == Walk(self.head, 0, i)
    IN IF ~IsSome(self.head, ptr) THEN Panicked(self)
       ELSE Outcome(self, Ref(self.head, ptr + 1))

index_mut(self, i) ==
    LET ptr == Walk(self.head, 0, i)
    IN IF ~IsSome(self.head, ptr) THEN Panicked(self)
       ELSE Outcome(self, Ref(self.head, ptr + 1))

\* Iter::next until it returns None, the items collected in order
RECURSIVE IterNext(_, _, _)
IterNext(chain, ptr, items) ==
    IF IsSome(chain, ptr) THEN IterNext(chain, ptr + 1, Append(items, chain[ptr + 1]))
    ELSE items

iter(self) == Outcome(self, Items(IterNext(self.head, 0, <<>>)))

\* IntoIter::next until it returns None: each call takes the head node out
RECURSIVE IntoIterNext(_, _)
IntoIterNext(self, items) ==
    IF self.head # None
    THEN IntoIterNext([self EXCEPT !.head = Tail(self.head)],
                      Append(items, Head(self.head)))
    ELSE [self |-> self, items |-> items]

into(self) == IntoIterNext(self, <<>>).items

\* for data in value.into_iter() { list.append(data) }
RECURSIVE FromLoop(_, _, _)
FromLoop(l, value, checks) ==
    IF value = <<>> THEN l
    ELSE FromLoop(append(l, Head(value), checks).self, Tail(value), checks)

from(value, checks) == FromLoop(new, value, checks)

\* one IntoIter::next call
into_iter_next(self) ==
    IF self.head # None
    THEN Outcome([self EXCEPT !.head = Tail(self.head)], RetSome(Head(self.head)))
    ELSE Outcome(self, RetNone)

\* --------------------------------------------------------------- teardown
Max(a, b) == IF a >= b THEN a ELSE b

\* Node has no Drop impl: releasing a Box<Node> releases its `next` field
\* inside the release of the node, one nesting level per node still linked
RECURSIVE BoxDropDepth(_)
BoxDropDepth(chain) ==
    IF chain = None THEN 0 ELSE 1 + BoxDropDepth(Tail(chain))

\* self.head = None releases the chain that head held
clear_depth(self) == BoxDropDepth(self.head)

\* the node popped gave away its next and its data before its Box is released
pop_front_depth(self) == IF self.head = None THEN 0 ELSE 1

\* the node taken keeps its next field when its Box is released
pop_last_depth(self, checks) ==
    IF self.head = None \/ pop_last(self, checks).panic THEN 0
    ELSE IF self.len = 1 THEN pop_front_depth(self)
    ELSE BoxDropDepth(Rest(self.head, Walk(self.head, 0, WrappingSub(self.len, 1))))

\* the node unlinked gave away its next before the link to it is overwritten
remove_depth(self, index0, checks) ==
    IF self.head = None \/ remove(self, index0, checks).panic THEN 0
    ELSE IF index0 = 0 THEN pop_front_depth(self)
    ELSE 1

\* while self.pop_front().is_some() {}, then the fields of the struct
RECURSIVE DropLoop(_, _, _)
DropLoop(self, checks, deepest) ==
    LET popped == pop_front(self, checks)
    IN IF popped.panic
       THEN [self |-> popped.self, panic |-> TRUE, depth |-> deepest]
       ELSE IF popped.ret = RetNone
       THEN [self |-> popped.self, panic |-> FALSE,
             depth |-> Max(deepest, BoxDropDepth(popped.self.head))]
       ELSE DropLoop(popped.self, checks, Max(deepest, pop_front_depth(self)))

drop(self, checks) == DropLoop(self, checks, 0)

\* ------------------------------------------------- the reference Vec
vec_pop_front(v) == IF v = <<>> THEN RetNone ELSE RetSome(Head(v))
vec_pop_last(v) == IF v = <<>> THEN RetNone ELSE RetSome(v[Len(v)])
vec_front_removed(v) == IF v = <<>> THEN v ELSE Tail(v)
vec_last_removed(v) == IF v = <<>> THEN v ELSE SubSeq(v, 1, Len(v) - 1)
vec_insert(v, d, i) ==
    IF i >= Len(v) THEN Append(v, d)
    ELSE SubSeq(v, 1, i) \o <<d>> \o SubSeq(v, i + 1, Len(v))
vec_remove(v, i) ==
    IF v = <<>> THEN v
    ELSE IF i >= Len(v) THEN vec_last_removed(v)
    ELSE SubSeq(v, 1, i) \o SubSeq(v, i + 2, Len(v))
vec_reverse(v) == [j \in 1..Len(v) |-> v[Len(v) + 1 - j]]

\* ----------------------------------------------------------------- actions
\* construction: LinkedList::new(), or LinkedList::from(value), which is
\* new() followed by one append per element (from(<<>>) is new())
Init ==
    \E value \in Vecs :
        /\ overflow_checks \in BOOLEAN
        /\ list = from(value, overflow_checks)
        /\ call = [op |-> "from", data |-> 0, index |-> 0]
        /\ ret = Unit
        /\ panicked = FALSE
        /\ vec = value
        /\ vec_ret = Unit
        /\ only_appended = TRUE
        /\ depth = 0

\* one call: its outcome on the list, and the same call on the reference.
\* Nothing is called on a list that was dropped, and a list moved into an
\* IntoIter is only iterated further or dropped.
Call(op, d, i, out, v, vr, oa, released) ==
    /\ ~panicked
    /\ call.op # "drop"
    /\ call.op = "into_iter_next" => op \in {"into_iter_next", "drop"}
    /\ call' = [op |-> op, data |-> d, index |-> i]
    /\ list' = out.self
    /\ ret' = out.ret
    /\ panicked' = out.panic
    /\ vec' = v
    /\ vec_ret' = vr
    /\ only_appended' = oa
    /\ depth' = released
    /\ UNCHANGED overflow_checks

\* a read-only call
Query(op, i, out) == Call(op, 0, i, out, vec, out.ret, only_appended, 0)

CanGrow == list.len < MaxCount /\ Len(vec) < MaxCount

AppendCall ==
    \E data \in Data :
        /\ CanGrow
        /\ Call("append", data, 0, append(list, data, overflow_checks),
                Append(vec, data), Unit, only_appended, 0)

Prepend ==
    \E data \in Data :
        /\ CanGrow
        /\ Call("prepend", data, 0, prepend(list, data, overflow_checks),
                <<data>> \o vec, Unit, FALSE, 0)

Clear == Call("clear", 0, 0, clear(list), <<>>, Unit, TRUE, clear_depth(list))

IsEmpty ==
    Query("is_empty", 0,
          Outcome(list, Items(IF is_empty(list) THEN <<1>> ELSE <<0>>)))

LenCall == Query("len", 0, Outcome(list, Items(<<len(list)>>)))

First == Query("first", 0, first(list))

Last == Query("last", 0, last(list))

LastMut == Query("last_mut", 0, last_mut(list, overflow_checks))

PopFront ==
    Call("pop_front", 0, 0, pop_front(list, overflow_checks),
         vec_front_removed(vec), vec_pop_front(vec), FALSE,
         pop_front_depth(list))

PopLast ==
    Call("pop_last", 0, 0, pop_last(list, overflow_checks),
         vec_last_removed(vec), vec_pop_last(vec), FALSE,
         pop_last_depth(list, overflow_checks))

Insert ==
    \E data \in Data, i \in Indices :
        /\ CanGrow
        /\ Call("insert", data, i, insert(list, data, i, overflow_checks),
                vec_insert(vec, data, i), Unit, FALSE, 0)

Remove ==
    \E i \in Indices :
        Call("remove", 0, i, remove(list, i, overflow_checks),
             vec_remove(vec, i), Unit, FALSE,
             remove_depth(list, i, overflow_checks))

Reverse ==
    Call("reverse", 0, 0, reverse(list), vec_reverse(vec), Unit, FALSE, 0)

IterAll == Query("iter", 0, iter(list))

IndexCall == \E i \in Indices : Query("index", i, index(list, i))

IndexMutCall == \E i \in Indices : Query("index_mut", i, index_mut(list, i))

\* into_iter() and one next() on the iterator that now owns the list
IntoIterNextCall ==
    Call("into_iter_next", 0, 0, into_iter_next(list),
         vec_front_removed(vec), vec_pop_front(vec), FALSE,
         pop_front_depth(list))

\* the list, or the IntoIter that owns it, goes out of scope
DropCall ==
    LET dropped == drop(list, overflow_checks)
    IN Call("drop", 0, 0,
            IF dropped.panic THEN Panicked(dropped.self)
            ELSE Outcome(dropped.self, Unit),
            <<>>, Unit, FALSE, dropped.depth)

Next ==
    \/ AppendCall
    \/ Prepend
    \/ Clear
    \/ IsEmpty
    \/ LenCall
    \/ First
    \/ Last
    \/ LastMut
    \/ PopFront
    \/ PopLast
    \/ Insert
    \/ Remove
    \/ Reverse
    \/ IterAll
    \/ IndexCall
    \/ IndexMutCall
    \/ IntoIterNextCall
    \/ DropCall

Spec == Init /\ [][Next]_vars

\* the test of the source: a list built from a Vec, then the calls the test makes
NextTest ==
    \/ AppendCall
    \/ Prepend
    \/ Reverse
    \/ PopLast
    \/ PopFront
    \/ Remove

SpecTest == Init /\ [][NextTest]_vars

\* ------------------------------------------------------------------ claims
Nodes(self) == WalkEnd(self.head, 0)
Elements(self) == iter(self).ret.val
Result(l, r, p) == [self |-> l, ret |-> r, panic |-> p]

\* the caller still owns the list: it was not moved into an IntoIter nor dropped
Live == call.op \notin {"into_iter_next", "drop"}

\* C1: after every call the stored count returned by len() equals the number
\* of nodes reachable from head, and a remove on a non-empty list that
\* completes lowers len() by exactly 1.
C1_CountMatchesChain ==
    [][/\ Live' => len(list') = Nodes(list')
       /\ (call'.op = "remove" /\ ~panicked /\ ~panicked' /\ list.head # None)
            => len(list') = len(list) - 1]_vars

\* C2: for a list built from a Vec and driven by append, prepend, reverse,
\* pop_last, pop_front and remove, every call completes, each pop returns what
\* the reference Vec returns, and the list converted into a Vec is the
\* reference Vec.
C2_TestRefinesVec ==
    /\ ~panicked
    /\ into(list) = vec
    /\ call.op \in {"pop_front", "pop_last"} => ret = vec_ret

\* C3: on a list of n >= 1 elements, remove(index) with index >= n completes
\* and leaves exactly the first n-1 elements in order.
C3_RemoveClampsToTail ==
    [][(call'.op = "remove" /\ ~panicked /\ list.head # None
          /\ call'.index >= Nodes(list))
         => /\ ~panicked'
            /\ Elements(list') = SubSeq(Elements(list), 1, Nodes(list) - 1)]_vars

\* C4: insert(value, index) never fails, and with index at or beyond the
\* number of elements in the list it appends: value is last and the list grew
\* by exactly one element.
C4_InsertNeverFails ==
    [][(call'.op = "insert" /\ ~panicked)
         => /\ ~panicked'
            /\ call'.index >= Nodes(list)
                 => Elements(list') = Append(Elements(list), call'.data)]_vars

\* C5: pop_last on a non-empty list returns the value of the final node (the
\* one last() designates), keeps the other elements in order and lowers the
\* count by 1; on an empty list it returns absent and changes nothing; with a
\* count of 1 it does what pop_front does.
C5_PopLastTakesTail ==
    [][(call'.op = "pop_last" /\ ~panicked)
         => IF is_empty(list)
            THEN ret' = RetNone /\ list' = list /\ ~panicked'
            ELSE /\ ~panicked'
                 /\ ret' = RetSome(list.head[Nodes(list)])
                 /\ ret'.val[1] = last(list).ret.val[2]
                 /\ Elements(list') = SubSeq(Elements(list), 1, Nodes(list) - 1)
                 /\ len(list') = len(list) - 1
                 /\ len(list) = 1
                      => Result(list', ret', panicked')
                           = pop_front(list, overflow_checks)]_vars

\* C6: list[i], shared or mutable, is the element at position i when
\* i < len() and panics when i >= len().
C6_IndexWithinLen ==
    Live =>
      \A i \in Indices :
        /\ i < len(list)
             => /\ ~index(list, i).panic
                /\ index(list, i).ret.val = <<i + 1, list.head[i + 1]>>
                /\ ~index_mut(list, i).panic
                /\ index_mut(list, i).ret.val = <<i + 1, list.head[i + 1]>>
        /\ i >= len(list)
             => index(list, i).panic /\ index_mut(list, i).panic

\* C7: last() and last_mut() never fail; both return absent on a list without
\* elements and otherwise both designate the final node of the chain.
C7_LastAndLastMutAgree ==
    LET a == last(list)
        b == last_mut(list, overflow_checks)
    IN Live =>
       /\ ~a.panic
       /\ ~b.panic
       /\ IF list.head = None
          THEN a.ret = RetNone /\ b.ret = RetNone
          ELSE a.ret = SomeRef(list.head, Nodes(list)) /\ b.ret = a.ret

\* C8: head is none exactly when the stored count is zero: is_empty() is true
\* exactly when len() is 0.
C8_EmptyIffZeroCount == Live => (is_empty(list) <=> (len(list) = 0))

\* C9: a list built from empty by appending the values of S in order (by
\* append or From<Vec>) iterates as exactly S and has len() = |S|.
C9_AppendedOrder ==
    only_appended => Elements(list) = vec /\ len(list) = Len(vec)

C9_Witness ==
    /\ only_appended
    /\ call.op = "iter"
    /\ ret = Items(vec)
    /\ Len(vec) >= 3
    /\ vec[1] # vec[2]
    /\ len(list) = Len(vec)

\* C10: on a non-empty list remove(len() - 1) and pop_last leave the same
\* list: same elements and same len().
C10_RemoveLastIsPopLast ==
    (Live /\ ~is_empty(list))
        => LET r == remove(list, WrappingSub(len(list), 1), overflow_checks)
               p == pop_last(list, overflow_checks)
           IN /\ r.panic = p.panic
              /\ Elements(r.self) = Elements(p.self)
              /\ len(r.self) = len(p.self)

\* C11: insert(v, 0) leaves the list as prepend(v) does, and insert(v, len())
\* leaves it as append(v) does, for every value and every list, the empty one
\* included.
C11_InsertAtEnds ==
    \A v \in Data :
        /\ insert(list, v, 0, overflow_checks) = prepend(list, v, overflow_checks)
        /\ insert(list, v, len(list), overflow_checks)
             = append(list, v, overflow_checks)

C11_Witness ==
    /\ call.op = "insert"
    /\ call.index = 0
    /\ ~panicked
    /\ Len(list.head) >= 2
    /\ list.head[1] = call.data
    /\ list.head[2] # call.data

\* C12: reversing twice gives back the original element order and leaves
\* len() unchanged.
C12_ReverseInvolution ==
    LET once == reverse(list)
        twice == reverse(once.self)
    IN /\ ~once.panic
       /\ ~twice.panic
       /\ Elements(twice.self) = Elements(list)
       /\ len(twice.self) = len(list)

C12_Witness ==
    /\ call.op = "reverse"
    /\ ~panicked
    /\ Len(list.head) >= 3
    /\ list.head[1] # list.head[3]
    /\ reverse(list).self.head # list.head

\* C15: after pop_front on a non-empty list, prepend of the value it returned
\* gives back the list as it was: same elements, same len().
C15_PopFrontPrependRoundTrip ==
    [][(call'.op = "pop_front" /\ ~panicked /\ ~is_empty(list))
         => /\ ~panicked'
            /\ ret'.kind = "some"
            /\ prepend(list', ret'.val[1], overflow_checks)
                 = Outcome(list, Unit)]_vars

C15_Witness ==
    /\ call.op = "pop_front"
    /\ ret.kind = "some"
    /\ Len(list.head) >= 2
    /\ ret.val[1] # list.head[1]
    /\ Elements(prepend(list, ret.val[1], overflow_checks).self)
         = <<ret.val[1]>> \o list.head

\* C17: on a list of n elements, insert(value, index) with 0 < index < n puts
\* value at position index, keeps the former elements before and after it in
\* order, and raises len() by exactly 1.
C17_InsertSplices ==
    [][(call'.op = "insert" /\ ~panicked
          /\ 0 < call'.index /\ call'.index < Nodes(list))
         => /\ ~panicked'
            /\ Elements(list')
                 = SubSeq(Elements(list), 1, call'.index)
                     \o <<call'.data>>
                     \o SubSeq(Elements(list), call'.index + 1, Nodes(list))
            /\ len(list') = len(list) + 1]_vars

C17_Witness ==
    /\ call.op = "insert"
    /\ ~panicked
    /\ 0 < call.index
    /\ call.index + 2 <= Len(list.head)
    /\ list.head[call.index + 1] = call.data
    /\ list.head[call.index] # call.data
    /\ list.head[call.index + 2] # call.data

\* C18: reverse leaves exactly the former elements in reverse order and len()
\* unchanged; on a list of at most one element it changes nothing.
C18_ReverseReverses ==
    [][(call'.op = "reverse" /\ ~panicked)
         => /\ ~panicked'
            /\ Elements(list') = vec_reverse(Elements(list))
            /\ len(list') = len(list)
            /\ Nodes(list) <= 1 => list' = list]_vars

C18_Witness ==
    /\ call.op = "reverse"
    /\ ~panicked
    /\ Len(list.head) = 2
    /\ len(list) = 2
    /\ list.head[1] # list.head[2]

\* C13: turning a list into a Vec and the Vec back into a list keeps the
\* element order and the count len(); the consuming iteration yields each
\* element once, in chain order, and leaves no node behind.
C13_RoundTripIdentity ==
    LET drained == IntoIterNext(list, <<>>)
        back == from(into(list), overflow_checks)
    IN Live =>
       /\ drained.items = Elements(list)
       /\ drained.self.head = None
       /\ Elements(back) = Elements(list)
       /\ len(back) = len(list)

\* C14: clear() and drop release the nodes one at a time: no node is released
\* inside the release of its predecessor, whatever the length of the chain.
C14_TeardownIterative ==
    call.op \in {"clear", "drop"} => depth <= 1

\* C16: after clear() is_empty() is true and len() is 0, whatever the list
\* was before.
C16_ClearEmpties ==
    [][(call'.op = "clear" /\ ~panicked)
         => /\ ~panicked'
            /\ is_empty(list')
            /\ len(list') = 0]_vars

C16_Witness ==
    /\ call.op = "clear"
    /\ depth >= 2
    /\ is_empty(list)
    /\ len(list) = 0

\* C19: the stored count is never below the number of nodes in the chain, so
\* the `len -= 1` of pop_front and pop_last, also under remove(0) and Drop,
\* never runs with a count of 0 and never underflows.
C19_CountNeverBelowNodes ==
    /\ len(list) >= Nodes(list)
    /\ ~is_empty(list) => len(list) >= 1
    /\ ~pop_front(list, TRUE).panic
    /\ pop_front(list, FALSE).self.len <= len(list)
    /\ ~remove(list, 0, TRUE).panic
    /\ ~drop(list, TRUE).panic
    /\ drop(list, FALSE).self.len <= len(list)
    /\ pop_last(list, FALSE).self.len <= len(list)

C19_Witness ==
    /\ call.op = "drop"
    /\ ~panicked
    /\ depth = 1
    /\ is_empty(list)
    /\ len(list) >= 1

=============================================================================
